---- MODULE Spec2Model ----
(***************************************************************************)
(* The asynchronous detection-overlay pipeline of EdgeAI_App_Simple:       *)
(*   src/src/webcam_yolo_detection.py            (script = "app")          *)
(*   src/src/learning/webcam_yolo_detection.py   (script = "learning")     *)
(* Three execution contexts share the module globals: the main thread      *)
(* (module level, main(), the GLib main loop and its bus handler), the     *)
(* detection thread (detection_loop) and the pipeline's streaming thread   *)
(* that invokes the cairooverlay draw callback (on_draw).                  *)
(***************************************************************************)
EXTENDS Integers, Sequences, FiniteSets, TLC

VARIABLES
  script,                 \* which of the two programs is running
  conf_threshold,         \* the detector's self.conf_threshold, in percent
  predictions,            \* detect local: the raw tensor the session returned
  queried_id,             \* get_class_name: the argument of the call
  class_name,             \* get_class_name: what the call returned, NotCalled before it
  output_shape,           \* shape of the output tensor of the model file the session runs
  decoded_as,             \* history: the postprocess that detect has applied, "A" or "B"
  main_pc,                \* position of the main thread
  exit_code,              \* process exit status, NoExit while the process lives
  pipeline,               \* state of the Gst pipeline object
  stream,                 \* what the camera source is doing
  bus,                    \* ERROR and EOS messages on the pipeline bus, not yet dispatched
  main_loop,              \* the GLib.MainLoop object
  running,                \* global running flag
  latest_detections,      \* global: reference to the published list
  heap,                   \* contents of the list objects
  appsink,                \* samples queued in the appsink: what the frame holds and
                          \* its number in the order of production
  produced,               \* frames the camera has delivered so far
  det_pc,                 \* position of the detection thread
  sample,                 \* detection_loop local: the pulled sample, until its last use
  mapped,                 \* whether the pulled buffer is currently mapped
  detections,             \* detection_loop local: what detect returned
  scaled_detections,      \* detection_loop local: reference to the list being built
  draw_pc,                \* position of the draw callback
  draw_detections,        \* on_draw local: reference read from latest_detections
  draw_i,                 \* on_draw local: position of the for loop
  drawn,                  \* what the current on_draw invocation has drawn so far
  label_tops,             \* top edge of the label background of each detection drawn
  logged_len,             \* what the periodic [DRAW] log line of this invocation reported
  draw_callback_count,    \* global: invocations of the draw callback
  published_as,           \* history: <<contents>> each list had when it was published
  last_published,         \* history: contents of the most recent publish
  loop_log,               \* history: how the iterations of detection_loop ended
  interrupted,            \* history: the main loop was left by KeyboardInterrupt
  exit_cause,             \* history: why the process ended
  preview_button,         \* main.py: text and enabled state of the preview button
  detect_button,          \* main.py: text and enabled state of the detection button
  camera_active,          \* gstreamer_manager.py: module global, unassigned at first
  clicks,                 \* history: the buttons the user has clicked, in order
  slot_raised,            \* history: the exception that ended the last slot, or "none"
  draws_before,           \* invocations of the draw callback before the run that is followed
  access_log              \* history: which context read or wrote which global

vars == <<script, conf_threshold, predictions, queried_id, class_name,
          output_shape, decoded_as, main_pc, exit_code, pipeline, stream, bus, main_loop, running,
          latest_detections, heap, appsink, produced, det_pc, sample, mapped,
          detections, scaled_detections, draw_pc,
          draw_detections, draw_i, drawn, label_tops, logged_len, draw_callback_count,
          published_as, last_published, loop_log, interrupted, exit_cause,
          preview_button, detect_button, camera_active, clicks, slot_raised,
          draws_before, access_log>>

(***************************************************************************)
(* Bounds of the model.                                                    *)
(***************************************************************************)
MaxFrames == 2      \* frames the camera delivers in one run
MaxDraws == 1       \* invocations of the draw callback in one run
MaxDets == 2        \* detections in one result of detect

(***************************************************************************)
(* Program constants.                                                      *)
(***************************************************************************)
DISPLAY_WIDTH == 640
DISPLAY_HEIGHT == 480
max_buffers == 1
CONF_THRESHOLD == 50    \* 0.5, in percent
NMS_THRESHOLD == 45     \* 0.45, in percent
LogEvery == 100

DETECTION_WIDTH == IF script = "app" THEN 640 ELSE 416
DETECTION_HEIGHT == IF script = "app" THEN 640 ELSE 416

Scripts == {"app", "learning"}
NoExit == <<>>
NoRef == "None"
NoSample == "None"
NotCalled == "not called"
NoSession == <<>>
Unpublished == <<>>
InitialList == "list0"
ListIds == {InitialList, "list1", "list2", "list3"}
MsgTypes == {"ERROR", "WARNING", "STATE_CHANGED", "EOS"}

\* COCO_CLASSES = ['person', 'bicycle', ...], index 0 first
COCO_CLASSES ==
  <<"person", "bicycle", "car", "motorcycle", "airplane", "bus", "train",
     "truck", "boat", "traffic light", "fire hydrant", "stop sign",
     "parking meter", "bench", "bird", "cat", "dog", "horse", "sheep", "cow",
     "elephant", "bear", "zebra", "giraffe", "backpack", "umbrella", "handbag",
     "tie", "suitcase", "frisbee", "skis", "snowboard", "sports ball", "kite",
     "baseball bat", "baseball glove", "skateboard", "surfboard",
     "tennis racket", "bottle", "wine glass", "cup", "fork", "knife", "spoon",
     "bowl", "banana", "apple", "sandwich", "orange", "broccoli", "carrot",
     "hot dog", "pizza", "donut", "cake", "chair", "couch", "potted plant",
     "bed", "dining table", "toilet", "tv", "laptop", "mouse", "remote",
     "keyboard", "cell phone", "microwave", "oven", "toaster", "sink",
     "refrigerator", "book", "clock", "vase", "scissors", "teddy bear",
     "hair drier", "toothbrush">>

\* l[i] of a Python list: a negative index counts from the end, an index outside
\* -len(l)..len(l)-1 raises IndexError
list_getitem(l, i) ==
  IF i >= 0 /\ i < Len(l) THEN l[i + 1]
  ELSE IF i < 0 /\ i >= -Len(l) THEN l[Len(l) + i + 1]
  ELSE "IndexError"

\* a plausible slip: only the upper end of the range is tested
get_class_name_upper_only(id) ==
  IF id < Len(COCO_CLASSES) THEN list_getitem(COCO_CLASSES, id) ELSE "unknown"

\* if 0 <= class_id < len(COCO_CLASSES): return COCO_CLASSES[class_id]
\* else: return 'unknown'
get_class_name(id) ==
  IF 0 <= id /\ id < Len(COCO_CLASSES) THEN list_getitem(COCO_CLASSES, id) ELSE "unknown"

(***************************************************************************)
(* Detections. detect returns a list of dicts; the i-th dict of the pool   *)
(* stands for the i-th object the detector can report.                     *)
(***************************************************************************)
Det(i) == [x |-> 100 * i, y |-> 50 * i, w |-> 30 * i, h |-> 20 * i,
           class_id |-> i - 1, class_name |-> get_class_name(i - 1),
           confidence |-> 100 - 10 * i]

\* what detect can return: no object, or the first n objects of the pool
DetectOutputs == {[k \in 1..n |-> Det(k)] : n \in 0..MaxDets}

\* int(v * scale): the product truncated towards zero. scale is the double
\* W / D; for the coordinates of the pool the double product v * (W / D) and the
\* exact quotient v * W / D have the same integer part
TruncDiv(a, b) == IF a >= 0 THEN a \div b ELSE -((-a) \div b)
ScaleX(v) == TruncDiv(v * DISPLAY_WIDTH, DETECTION_WIDTH)
ScaleY(v) == TruncDiv(v * DISPLAY_HEIGHT, DETECTION_HEIGHT)

scaled_det(det) ==
  [x |-> ScaleX(det.x), y |-> ScaleY(det.y), w |-> ScaleX(det.w), h |-> ScaleY(det.h),
   class_id |-> det.class_id, class_name |-> det.class_name,
   confidence |-> det.confidence]

ScaleAll(dets) == [k \in 1..Len(dets) |-> scaled_det(dets[k])]

(***************************************************************************)
(* List objects. A list lives while something refers to it; an             *)
(* unreferenced list is collected and its slot reused.                     *)
(***************************************************************************)
Referenced(ld, sd, dd) == {ld, sd, dd} \ {NoRef}

\* a plausible slip: the published list is refilled in place instead of a new one
ReusedList(ld, sd, dd) == ld

FreshList(ld, sd, dd) == CHOOSE i \in ListIds : i \notin Referenced(ld, sd, dd)

Collect(h, ld, sd, dd) ==
  [i \in ListIds |-> IF i \in Referenced(ld, sd, dd) THEN h[i] ELSE <<>>]

CollectHistory(p, ld, sd, dd) ==
  [i \in ListIds |-> IF i \in Referenced(ld, sd, dd) THEN p[i] ELSE Unpublished]

Alive == exit_code = NoExit

(***************************************************************************)
(* The record of accesses to the module globals. Each entry names the      *)
(* global, the context that touched it and whether it read or wrote it.    *)
(* The record is kept only in the specification that starts it switched on.*)
(***************************************************************************)
Contexts == {"main", "detection", "draw"}
Acc(v, c, m) == [var |-> v, ctx |-> c, mode |-> m]
NoMessage == [type |-> "none", returned |-> FALSE]
Untraced == [on |-> FALSE, seen |-> {}, handled |-> NoMessage]
Traced == [on |-> TRUE, seen |-> {}, handled |-> NoMessage]
Logged(accs) ==
  access_log' = IF access_log.on THEN [access_log EXCEPT !.seen = @ \cup accs]
                                 ELSE access_log

\* the bus handler has handled a message of type t, touched the globals accs and
\* returned ret
LoggedMessage(t, ret, accs) ==
  access_log' = IF access_log.on
                THEN [access_log EXCEPT !.seen = @ \cup accs,
                                        !.handled = [type |-> t, returned |-> ret]]
                ELSE access_log

\* a global that no statement has assigned yet
NotAssigned == <<>>

\* a plausible slip: the detection button is left as QPushButton creates it
WidgetSetupDetectEnabled ==
  /\ preview_button = [text |-> "Start Cam Preview", enabled |-> TRUE]
  /\ detect_button = [text |-> "Start Object Detection", enabled |-> TRUE]
  /\ camera_active = NotAssigned
  /\ clicks = <<>>
  /\ slot_raised = "none"

\* main.py at module level: preview_button = QPushButton('Start Cam Preview'),
\* detect_button = QPushButton('Start Object Detection'),
\* detect_button.setEnabled(False)
WidgetSetup ==
  /\ preview_button = [text |-> "Start Cam Preview", enabled |-> TRUE]
  /\ detect_button = [text |-> "Start Object Detection", enabled |-> FALSE]
  /\ camera_active = NotAssigned
  /\ clicks = <<>>
  /\ slot_raised = "none"

\* the module-level statements: the globals as the import leaves them
ModuleLevel ==
  /\ script \in Scripts
  /\ conf_threshold = CONF_THRESHOLD
  /\ predictions = <<>>
  /\ class_name = NotCalled
  /\ output_shape = NoSession
  /\ decoded_as = "none"
  /\ main_pc = "check_model"
  /\ exit_code = NoExit
  /\ pipeline = "none"
  /\ stream = "live"
  /\ bus = <<>>
  /\ main_loop = "none"
  /\ running = TRUE
  /\ latest_detections = InitialList
  /\ heap = [i \in ListIds |-> <<>>]
  /\ appsink = <<>>
  /\ produced = 0
  /\ det_pc = "idle"
  /\ sample = NoSample
  /\ mapped = FALSE
  /\ detections = <<>>
  /\ scaled_detections = NoRef
  /\ draw_pc = "idle"
  /\ draw_detections = NoRef
  /\ draw_i = 0
  /\ drawn = <<>>
  /\ label_tops = <<>>
  /\ logged_len = -1
  /\ draw_callback_count = 0
  /\ published_as = [i \in ListIds |-> IF i = InitialList THEN << <<>> >> ELSE Unpublished]
  /\ last_published = <<>>
  /\ loop_log = <<>>
  /\ interrupted = FALSE
  /\ exit_cause = "none"
  /\ draws_before = 0
  /\ WidgetSetup

Init == ModuleLevel /\ queried_id = 0 /\ access_log = Untraced

guiVars == <<preview_button, detect_button, camera_active, clicks, slot_raised>>
detectorVars == <<conf_threshold, predictions, queried_id, class_name, output_shape, decoded_as>>
mainVars == <<main_pc, exit_code, pipeline, main_loop, interrupted, exit_cause>>
envVars == <<stream, bus, appsink, produced>>
detVars == <<det_pc, sample, mapped, detections, scaled_detections>>
drawVars == <<draw_pc, draw_detections, draw_i, drawn, label_tops, logged_len,
              draw_callback_count>>
boardVars == <<latest_detections, heap, published_as, last_published, loop_log>>

(***************************************************************************)
(* The main thread: module level, main() and the GLib main loop.           *)
(***************************************************************************)
Exit(code, cause) ==
  /\ main_pc' = "exited"
  /\ exit_code' = <<code>>
  /\ exit_cause' = cause

\* if not os.path.exists(MODEL_PATH): sys.exit(1)
CheckModel ==
  /\ Alive /\ main_pc = "check_model"
  /\ \E exists \in BOOLEAN :
       IF exists THEN main_pc' = "create_detector" /\ UNCHANGED <<exit_code, exit_cause>>
                 ELSE Exit(1, "model_missing")
  /\ UNCHANGED access_log
  /\ UNCHANGED <<script, detectorVars, draws_before, guiVars, pipeline, main_loop, running, interrupted>>
  /\ UNCHANGED <<envVars, detVars, drawVars, boardVars>>

\* a plausible slip: the except branch reports the failure and goes on
CreateDetectorReportsOnly ==
  /\ Alive /\ main_pc = "create_detector"
  /\ \E loaded \in BOOLEAN :
       /\ main_pc' = "parse_launch"
       /\ exit_code' = exit_code
       /\ exit_cause' = IF loaded THEN exit_cause ELSE "load_failed"
  /\ UNCHANGED access_log
  /\ UNCHANGED <<script, detectorVars, draws_before, guiVars, pipeline, main_loop, running, interrupted>>
  /\ UNCHANGED <<envVars, detVars, drawVars, boardVars>>

\* yolo_detector = YOLODetector(...); a raise ends in sys.exit(1)
CreateDetector ==
  /\ Alive /\ main_pc = "create_detector"
  /\ \E loaded \in BOOLEAN :
       IF loaded THEN main_pc' = "parse_launch" /\ UNCHANGED <<exit_code, exit_cause>>
                 ELSE Exit(1, "load_failed")
  /\ UNCHANGED access_log
  /\ UNCHANGED <<script, detectorVars, draws_before, guiVars, pipeline, main_loop, running, interrupted>>
  /\ UNCHANGED <<envVars, detVars, drawVars, boardVars>>

\* main() returning ends the script: the interpreter exits with status 0
ReturnFromMain(cause) == Exit(0, cause)

\* pipeline = Gst.parse_launch(pipeline_str), "return" when it raises
ParseLaunch ==
  /\ Alive /\ main_pc = "parse_launch"
  /\ \E parsed \in BOOLEAN :
       IF parsed THEN /\ main_pc' = "get_elements"
                      /\ UNCHANGED <<exit_code, exit_cause>>
                      /\ pipeline' = "NULL"
                 ELSE /\ ReturnFromMain("parse_failed")
                      /\ pipeline' = pipeline
  /\ UNCHANGED access_log
  /\ UNCHANGED <<script, detectorVars, draws_before, guiVars, main_loop, running, interrupted>>
  /\ UNCHANGED <<envVars, detVars, drawVars, boardVars>>

\* get_by_name of overlay and sink, then the draw callback and the bus watch are
\* connected; the learning script creates its GLib.MainLoop here
GetElements ==
  /\ Alive /\ main_pc = "get_elements"
  /\ \E found \in BOOLEAN :
       IF found THEN /\ main_pc' = "start_thread"
                     /\ UNCHANGED <<exit_code, exit_cause>>
                     /\ main_loop' = IF script = "learning" THEN "created" ELSE main_loop
                     /\ Logged(IF script = "learning"
                               THEN {Acc("main_loop", "main", "w")} ELSE {})
                ELSE /\ ReturnFromMain("elements_missing")
                     /\ main_loop' = main_loop
                     /\ UNCHANGED access_log
  /\ UNCHANGED <<script, detectorVars, draws_before, guiVars, pipeline, running, interrupted>>
  /\ UNCHANGED <<envVars, detVars, drawVars, boardVars>>

\* a plausible slip: the thread object is created but start() is not called
ThreadNotStarted ==
  /\ Alive /\ main_pc = "start_thread"
  /\ main_pc' = "set_playing"
  /\ UNCHANGED access_log
  /\ UNCHANGED <<script, detectorVars, draws_before, guiVars, exit_code, pipeline, main_loop, running, interrupted, exit_cause>>
  /\ UNCHANGED <<envVars, detVars, drawVars, boardVars>>

\* detection_thread = threading.Thread(target=detection_loop, daemon=True); start()
StartDetectionThread ==
  /\ Alive /\ main_pc = "start_thread"
  /\ main_pc' = "set_playing"
  /\ det_pc' = "while"
  /\ UNCHANGED access_log
  /\ UNCHANGED <<script, detectorVars, draws_before, guiVars, exit_code, pipeline, main_loop, running, interrupted, exit_cause>>
  /\ UNCHANGED <<sample, mapped, detections, scaled_detections>>
  /\ UNCHANGED <<envVars, drawVars, boardVars>>

\* ret = pipeline.set_state(Gst.State.PLAYING); "return" on FAILURE
SetPlaying ==
  /\ Alive /\ main_pc = "set_playing"
  /\ \E ret \in {"SUCCESS", "FAILURE"} :
       IF ret = "FAILURE" THEN /\ ReturnFromMain("play_failed")
                               /\ pipeline' = pipeline
                          ELSE /\ main_pc' = "sleep"
                               /\ UNCHANGED <<exit_code, exit_cause>>
                               /\ pipeline' = "PLAYING"
  /\ UNCHANGED access_log
  /\ UNCHANGED <<script, detectorVars, draws_before, guiVars, main_loop, running, interrupted>>
  /\ UNCHANGED <<envVars, detVars, drawVars, boardVars>>

\* time.sleep, the status check; the app creates its GLib.MainLoop only now
Settle ==
  /\ Alive /\ main_pc = "sleep"
  /\ main_pc' = "run"
  /\ main_loop' = IF script = "app" THEN "created" ELSE main_loop
  /\ Logged(IF script = "app"
            THEN {Acc("draw_callback_count", "main", "r"), Acc("latest_detections", "main", "r"),
                  Acc("main_loop", "main", "w")}
            ELSE {})
  /\ UNCHANGED <<script, detectorVars, draws_before, guiVars, exit_code, pipeline, running, interrupted, exit_cause>>
  /\ UNCHANGED <<envVars, detVars, drawVars, boardVars>>

\* main_loop.quit()
Quit(ml) == IF ml = "none" THEN ml ELSE "quit"

\* a plausible slip: a warning is treated like an error and ends the main loop
on_bus_message_warning_quits(t) ==
  /\ main_loop' = IF t \in {"ERROR", "WARNING", "EOS"} THEN Quit(main_loop) ELSE main_loop
  /\ running' = running
  /\ LoggedMessage(t, TRUE,
                   IF t \in {"ERROR", "WARNING", "EOS"}
                   THEN {Acc("main_loop", "main", "r")} ELSE {})

\* on_bus_message of webcam_yolo_detection.py
on_bus_message(t) ==
  /\ main_loop' = IF t \in {"ERROR", "EOS"} THEN Quit(main_loop) ELSE main_loop
  /\ running' = running
  /\ LoggedMessage(t, TRUE,
                   IF t \in {"ERROR", "EOS"} THEN {Acc("main_loop", "main", "r")} ELSE {})

\* a plausible slip: the handler quits the main loop and leaves running alone
learning_on_bus_message_quits_only(t) ==
  /\ running' = running
  /\ main_loop' = IF t \in {"ERROR", "EOS"} /\ main_loop # "none"
                  THEN Quit(main_loop) ELSE main_loop
  /\ LoggedMessage(t, TRUE,
                   IF t \in {"ERROR", "EOS"} THEN {Acc("main_loop", "main", "r")} ELSE {})

\* on_bus_message of learning/webcam_yolo_detection.py
learning_on_bus_message(t) ==
  /\ running' = IF t \in {"ERROR", "EOS"} THEN FALSE ELSE running
  /\ main_loop' = IF t \in {"ERROR", "EOS"} /\ main_loop # "none"
                  THEN Quit(main_loop) ELSE main_loop
  /\ LoggedMessage(t, TRUE,
                   IF t \in {"ERROR", "EOS"}
                   THEN {Acc("running", "main", "w"), Acc("main_loop", "main", "r")} ELSE {})

\* main_loop.run() dispatching one bus message to the handler: the queued ERROR
\* or EOS, or a WARNING or STATE_CHANGED message the pipeline posts meanwhile
DispatchBusMessage ==
  /\ Alive /\ main_pc = "run" /\ main_loop = "created"
  /\ \E t \in MsgTypes :
       /\ IF t \in {"ERROR", "EOS"}
          THEN bus # <<>> /\ t = Head(bus) /\ bus' = Tail(bus)
          ELSE pipeline = "PLAYING" /\ bus' = bus
       /\ IF script = "app" THEN on_bus_message(t)
                            ELSE learning_on_bus_message(t)
  /\ UNCHANGED <<script, detectorVars, draws_before, guiVars, main_pc, exit_code, pipeline, interrupted, exit_cause>>
  /\ UNCHANGED <<stream, appsink, produced>>
  /\ UNCHANGED <<detVars, drawVars, boardVars>>

\* main_loop.run() returns after quit()
MainLoopReturns ==
  /\ Alive /\ main_pc = "run" /\ main_loop = "quit"
  /\ main_pc' = "cleanup"
  /\ UNCHANGED access_log
  /\ UNCHANGED <<script, detectorVars, draws_before, guiVars, exit_code, pipeline, main_loop, running, interrupted, exit_cause>>
  /\ UNCHANGED <<envVars, detVars, drawVars, boardVars>>

\* a plausible slip: the handler leaves the main loop without running = False
KeyboardInterruptKeepsRunning ==
  /\ Alive /\ main_pc = "run"
  /\ interrupted' = TRUE
  /\ main_pc' = "cleanup"
  /\ UNCHANGED access_log
  /\ UNCHANGED <<script, detectorVars, draws_before, guiVars, exit_code, pipeline, main_loop, running, exit_cause>>
  /\ UNCHANGED <<envVars, detVars, drawVars, boardVars>>

\* except KeyboardInterrupt: running = False
KeyboardInterrupt ==
  /\ Alive /\ main_pc = "run"
  /\ running' = FALSE
  /\ interrupted' = TRUE
  /\ main_pc' = "cleanup"
  /\ Logged({Acc("running", "main", "w")})
  /\ UNCHANGED <<script, detectorVars, draws_before, guiVars, exit_code, pipeline, main_loop, exit_cause>>
  /\ UNCHANGED <<envVars, detVars, drawVars, boardVars>>

\* the app prints its final statistics; pipeline.set_state(Gst.State.NULL): the
\* appsink stops and drops what it holds
Cleanup ==
  /\ Alive /\ main_pc = "cleanup"
  /\ pipeline' = "NULL"
  /\ appsink' = <<>>
  /\ main_pc' = "join"
  /\ Logged(IF script = "app" THEN {Acc("draw_callback_count", "main", "r")} ELSE {})
  /\ UNCHANGED <<script, detectorVars, draws_before, guiVars, exit_code, main_loop, running, interrupted, exit_cause>>
  /\ UNCHANGED <<stream, bus, produced>>
  /\ UNCHANGED <<detVars, drawVars, boardVars>>

\* detection_thread.join(timeout=2): returns when the thread has ended or the
\* timeout has passed, whichever is first
Join ==
  /\ Alive /\ main_pc = "join"
  /\ main_pc' = "report"
  /\ UNCHANGED access_log
  /\ UNCHANGED <<script, detectorVars, draws_before, guiVars, exit_code, pipeline, main_loop, running, interrupted, exit_cause>>
  /\ UNCHANGED <<envVars, detVars, drawVars, boardVars>>

\* "[MAIN] Detection thread stopped", "SHUTDOWN COMPLETE", then main() returns
Report ==
  /\ Alive /\ main_pc = "report"
  /\ ReturnFromMain("shutdown")
  /\ UNCHANGED access_log
  /\ UNCHANGED <<script, detectorVars, draws_before, guiVars, pipeline, main_loop, running, interrupted>>
  /\ UNCHANGED <<envVars, detVars, drawVars, boardVars>>

(***************************************************************************)
(* The pipeline: the camera source, the bus and the appsink                *)
(* (appsink name=sink emit-signals=True max-buffers=1 drop=True).          *)
(***************************************************************************)
\* a plausible slip: a full queue refuses the new sample and keeps the old one
EnqueueKeepsOldest(q, f) == IF Len(q) >= max_buffers THEN q ELSE Append(q, f)

\* a new sample reaches the appsink; with drop=True a full queue drops its oldest
Enqueue(q, f) == IF Len(q) >= max_buffers THEN Append(Tail(q), f) ELSE Append(q, f)

CameraFrame ==
  /\ Alive /\ pipeline = "PLAYING" /\ stream = "live"
  /\ produced < MaxFrames
  /\ \E kind \in {"ok", "bad"} :
       appsink' = Enqueue(appsink, [kind |-> kind, seq |-> produced + 1])
  /\ produced' = produced + 1
  /\ UNCHANGED <<stream, bus>>
  /\ UNCHANGED access_log
  /\ UNCHANGED <<script, detectorVars, draws_before, guiVars, mainVars, running, detVars, drawVars, boardVars>>

\* the source fails or ends, once: the pipeline posts ERROR or EOS on its bus,
\* where the message waits until the main loop dispatches it
CameraFault ==
  /\ Alive /\ pipeline = "PLAYING" /\ stream = "live"
  /\ \E t \in {"ERROR", "EOS"} :
       /\ stream' = IF t = "ERROR" THEN "error" ELSE "eos"
       /\ bus' = Append(bus, t)
  /\ UNCHANGED <<appsink, produced>>
  /\ UNCHANGED access_log
  /\ UNCHANGED <<script, detectorVars, draws_before, guiVars, mainVars, running, detVars, drawVars, boardVars>>

(***************************************************************************)
(* The detection thread: detection_loop.                                   *)
(***************************************************************************)
\* while running:
WhileRunning ==
  /\ Alive /\ det_pc = "while"
  /\ det_pc' = IF running THEN "pull" ELSE "exited"
  /\ UNCHANGED <<sample, mapped, detections, scaled_detections>>
  /\ Logged({Acc("running", "detection", "r")})
  /\ UNCHANGED <<script, detectorVars, draws_before, guiVars, mainVars, running, envVars, drawVars, boardVars>>

\* appsink.emit('pull-sample') has no timeout: it returns a sample when one is
\* queued, None when the appsink is not started or at end of stream, and blocks
\* otherwise
PullReturnsNone == appsink = <<>> /\ (pipeline # "PLAYING" \/ stream = "eos")

\* sample = appsink.emit('pull-sample'); if not sample: sleep, continue;
\* buffer = sample.get_buffer()
PullSample ==
  /\ Alive /\ det_pc = "pull"
  /\ \/ /\ appsink # <<>>
        /\ sample' = Head(appsink).kind
        /\ appsink' = Tail(appsink)
        /\ det_pc' = "map"
     \/ /\ PullReturnsNone
        /\ sample' = NoSample
        /\ appsink' = appsink
        /\ det_pc' = "while"
  /\ UNCHANGED <<mapped, detections, scaled_detections>>
  /\ UNCHANGED <<stream, bus, produced>>
  /\ UNCHANGED access_log
  /\ UNCHANGED <<script, detectorVars, draws_before, guiVars, mainVars, running, drawVars, boardVars>>

\* success, map_info = buffer.map(Gst.MapFlags.READ); if not success: continue
MapBuffer ==
  /\ Alive /\ det_pc = "map"
  /\ \E success \in BOOLEAN :
       /\ mapped' = success
       /\ det_pc' = IF success THEN "frame" ELSE "while"
       /\ sample' = IF success THEN sample ELSE NoSample
  /\ UNCHANGED <<detections, scaled_detections>>
  /\ UNCHANGED access_log
  /\ UNCHANGED <<script, detectorVars, draws_before, guiVars, mainVars, running, envVars, drawVars, boardVars>>

\* frame = np.ndarray(shape=..., buffer=map_info.data): raises when the buffer is
\* too small for the shape. The app unmaps next, the learning script detects next.
BuildFrame ==
  /\ Alive /\ det_pc = "frame"
  /\ det_pc' = IF sample = "bad" THEN "except"
               ELSE IF script = "app" THEN "unmap" ELSE "detect"
  /\ loop_log' = IF sample = "bad" THEN Append(loop_log, "bad_frame") ELSE loop_log
  /\ sample' = NoSample
  /\ UNCHANGED <<mapped, detections, scaled_detections>>
  /\ UNCHANGED <<latest_detections, heap, published_as, last_published>>
  /\ UNCHANGED access_log
  /\ UNCHANGED <<script, detectorVars, draws_before, guiVars, mainVars, running, envVars, drawVars>>

\* app: buffer.unmap(map_info), before detect is called
UnmapBuffer ==
  /\ Alive /\ det_pc = "unmap"
  /\ mapped' = FALSE
  /\ det_pc' = "detect"
  /\ UNCHANGED <<sample, detections, scaled_detections>>
  /\ UNCHANGED access_log
  /\ UNCHANGED <<script, detectorVars, draws_before, guiVars, mainVars, running, envVars, drawVars, boardVars>>

\* learning: buffer.unmap(map_info) after detect has returned
learning_UnmapBuffer ==
  /\ Alive /\ det_pc = "unmap_after"
  /\ mapped' = FALSE
  /\ det_pc' = "scale"
  /\ UNCHANGED <<sample, detections, scaled_detections>>
  /\ UNCHANGED access_log
  /\ UNCHANGED <<script, detectorVars, draws_before, guiVars, mainVars, running, envVars, drawVars, boardVars>>

\* detections = yolo_detector.detect(frame): the call is in flight while the
\* thread is at "detect"; it returns a list or raises. scaled_detections = []
\* allocates the list the scaling loop fills.
Detect ==
  /\ Alive /\ det_pc = "detect"
  /\ \/ /\ \E out \in DetectOutputs : detections' = out
        /\ scaled_detections' = FreshList(latest_detections, NoRef, draw_detections)
        /\ heap' = Collect(heap, latest_detections, scaled_detections', draw_detections)
        /\ published_as' = CollectHistory(published_as, latest_detections,
                                          scaled_detections', draw_detections)
        /\ det_pc' = IF script = "app" THEN "scale" ELSE "unmap_after"
        /\ loop_log' = loop_log
     \/ /\ det_pc' = "except"
        /\ loop_log' = Append(loop_log, "detect_raised")
        /\ UNCHANGED <<detections, scaled_detections, heap, published_as>>
  /\ UNCHANGED <<sample, mapped>>
  /\ UNCHANGED <<latest_detections, last_published>>
  /\ UNCHANGED access_log
  /\ UNCHANGED <<script, detectorVars, draws_before, guiVars, mainVars, running, envVars, drawVars>>

\* a plausible slip: each entry is put at the front of the list
ScaleInsertsAtFront ==
  /\ Alive /\ det_pc = "scale"
  /\ Len(heap[scaled_detections]) < Len(detections)
  /\ heap' = [heap EXCEPT ![scaled_detections] =
                <<scaled_det(detections[Len(@) + 1])>> \o @]
  /\ UNCHANGED <<latest_detections, published_as, last_published, loop_log>>
  /\ UNCHANGED access_log
  /\ UNCHANGED <<script, detectorVars, draws_before, guiVars, mainVars, running, envVars, detVars, drawVars>>

\* for det in detections: scaled_detections.append({...})
ScaleAppend ==
  /\ Alive /\ det_pc = "scale"
  /\ Len(heap[scaled_detections]) < Len(detections)
  /\ heap' = [heap EXCEPT ![scaled_detections] =
                Append(@, scaled_det(detections[Len(@) + 1]))]
  /\ UNCHANGED <<latest_detections, published_as, last_published, loop_log>>
  /\ UNCHANGED access_log
  /\ UNCHANGED <<script, detectorVars, draws_before, guiVars, mainVars, running, envVars, detVars, drawVars>>

\* a plausible slip: a result is kept back while the board still shows objects
PublishOnlyOverEmpty ==
  /\ Alive /\ det_pc = "scale"
  /\ Len(heap[scaled_detections]) >= Len(detections)
  /\ latest_detections' = IF heap[latest_detections] = <<>> THEN scaled_detections
                                                            ELSE latest_detections
  /\ heap' = Collect(heap, latest_detections', scaled_detections, draw_detections)
  /\ published_as' = [CollectHistory(published_as, latest_detections',
                                     scaled_detections, draw_detections)
                        EXCEPT ![scaled_detections] = <<heap[scaled_detections]>>]
  /\ last_published' = heap[scaled_detections]
  /\ loop_log' = Append(loop_log, "publish")
  /\ det_pc' = "while"
  /\ UNCHANGED <<sample, mapped, detections, scaled_detections>>
  /\ Logged({Acc("latest_detections", "detection", "r"), Acc("latest_detections", "detection", "w")})
  /\ UNCHANGED <<script, detectorVars, draws_before, guiVars, mainVars, running, envVars, drawVars>>

\* latest_detections = scaled_detections, after the for loop has ended
Publish ==
  /\ Alive /\ det_pc = "scale"
  /\ Len(heap[scaled_detections]) >= Len(detections)
  /\ latest_detections' = scaled_detections
  /\ heap' = Collect(heap, latest_detections', scaled_detections, draw_detections)
  /\ published_as' = [CollectHistory(published_as, latest_detections',
                                     scaled_detections, draw_detections)
                        EXCEPT ![scaled_detections] = <<heap[scaled_detections]>>]
  /\ last_published' = heap[scaled_detections]
  /\ loop_log' = Append(loop_log, "publish")
  /\ det_pc' = "while"
  /\ UNCHANGED <<sample, mapped, detections, scaled_detections>>
  /\ Logged({Acc("latest_detections", "detection", "w")})
  /\ UNCHANGED <<script, detectorVars, draws_before, guiVars, mainVars, running, envVars, drawVars>>

\* a plausible slip: the exception is not caught inside the loop and ends the thread
ExceptEndsLoop ==
  /\ Alive /\ det_pc = "except"
  /\ det_pc' = "exited"
  /\ UNCHANGED <<sample, mapped, detections, scaled_detections>>
  /\ UNCHANGED access_log
  /\ UNCHANGED <<script, detectorVars, draws_before, guiVars, mainVars, running, envVars, drawVars, boardVars>>

\* a plausible slip: the except branch re-arms the loop for its retry
ExceptRearmsLoop ==
  /\ Alive /\ det_pc = "except"
  /\ det_pc' = "while"
  /\ running' = TRUE
  /\ UNCHANGED <<sample, mapped, detections, scaled_detections>>
  /\ UNCHANGED access_log
  /\ UNCHANGED <<script, detectorVars, draws_before, guiVars, mainVars, envVars, drawVars, boardVars>>

\* a plausible slip: the except branch clears the board: latest_detections = []
ExceptClearsResult ==
  /\ Alive /\ det_pc = "except"
  /\ det_pc' = "while"
  /\ latest_detections' = FreshList(latest_detections, scaled_detections, draw_detections)
  /\ heap' = Collect(heap, latest_detections', scaled_detections, draw_detections)
  /\ published_as' = [CollectHistory(published_as, latest_detections',
                                     scaled_detections, draw_detections)
                        EXCEPT ![latest_detections'] = << <<>> >>]
  /\ last_published' = <<>>
  /\ loop_log' = loop_log
  /\ UNCHANGED <<sample, mapped, detections, scaled_detections>>
  /\ UNCHANGED access_log
  /\ UNCHANGED <<script, detectorVars, draws_before, guiVars, mainVars, running, envVars, drawVars>>

\* except Exception as e: print, time.sleep(0.1)
Except ==
  /\ Alive /\ det_pc = "except"
  /\ det_pc' = "while"
  /\ UNCHANGED <<sample, mapped, detections, scaled_detections>>
  /\ UNCHANGED access_log
  /\ UNCHANGED <<script, detectorVars, draws_before, guiVars, mainVars, running, envVars, drawVars, boardVars>>

(***************************************************************************)
(* The draw callback: on_draw, invoked by cairooverlay for each display    *)
(* frame. draw_callback_count counts the invocations (the learning script  *)
(* keeps no such counter; there it only bounds the run).                   *)
(***************************************************************************)
label_height == 20

\* the y of context.rectangle(x, y - label_height, ...) in the app;
\* label_y = y - label_height if (y - label_height) >= 0 else y + label_height
\* in the learning script
label_y(y) ==
  IF script = "app" THEN y - label_height
  ELSE IF y - label_height >= 0 THEN y - label_height ELSE y + label_height

\* draw_callback_count += 1; every 100th frame the app logs len(latest_detections)
OnDrawEnter ==
  /\ Alive /\ pipeline = "PLAYING" /\ draw_pc = "idle"
  /\ draw_callback_count < draws_before + MaxDraws
  /\ draw_callback_count' = draw_callback_count + 1
  /\ logged_len' = IF script = "app" /\ draw_callback_count' % LogEvery = 0
                   THEN Len(heap[latest_detections]) ELSE -1
  /\ drawn' = <<>>
  /\ label_tops' = <<>>
  /\ draw_pc' = "read"
  /\ UNCHANGED <<draw_detections, draw_i>>
  /\ Logged({Acc("draw_callback_count", "draw", "r"), Acc("draw_callback_count", "draw", "w")}
            \cup IF script = "app" /\ draw_callback_count' % LogEvery = 0
                 THEN {Acc("latest_detections", "draw", "r")} ELSE {})
  /\ UNCHANGED <<script, detectorVars, draws_before, guiVars, mainVars, running, envVars, detVars, boardVars>>

\* a plausible slip: the callback waits for the detection thread to leave its
\* scaling loop before it reads the result
OnDrawReadWaits ==
  /\ Alive /\ draw_pc = "read" /\ det_pc # "scale"
  /\ IF heap[latest_detections] = <<>>
     THEN /\ draw_pc' = "idle"
          /\ UNCHANGED <<draw_detections, draw_i, heap, published_as>>
     ELSE /\ draw_pc' = "loop"
          /\ draw_detections' = latest_detections
          /\ draw_i' = 1
          /\ UNCHANGED <<heap, published_as>>
  /\ UNCHANGED <<drawn, label_tops, logged_len, draw_callback_count>>
  /\ UNCHANGED <<latest_detections, last_published, loop_log>>
  /\ Logged({Acc("latest_detections", "draw", "r")})
  /\ UNCHANGED <<script, detectorVars, draws_before, guiVars, mainVars, running, envVars, detVars>>

\* detections = latest_detections; if not detections: return
OnDrawRead ==
  /\ Alive /\ draw_pc = "read"
  /\ IF heap[latest_detections] = <<>>
     THEN /\ draw_pc' = "idle"
          /\ UNCHANGED <<draw_detections, draw_i, heap, published_as>>
     ELSE /\ draw_pc' = "loop"
          /\ draw_detections' = latest_detections
          /\ draw_i' = 1
          /\ UNCHANGED <<heap, published_as>>
  /\ UNCHANGED <<drawn, label_tops, logged_len, draw_callback_count>>
  /\ UNCHANGED <<latest_detections, last_published, loop_log>>
  /\ Logged({Acc("latest_detections", "draw", "r")})
  /\ UNCHANGED <<script, detectorVars, draws_before, guiVars, mainVars, running, envVars, detVars>>

\* a plausible slip: the callback takes each detection off the list it draws
OnDrawStepPops ==
  /\ Alive /\ draw_pc = "loop"
  /\ IF heap[draw_detections] # <<>>
     THEN /\ drawn' = Append(drawn, Head(heap[draw_detections]))
          /\ label_tops' = Append(label_tops, label_y(Head(heap[draw_detections]).y))
          /\ heap' = [heap EXCEPT ![draw_detections] = Tail(@)]
          /\ UNCHANGED <<draw_pc, draw_detections, draw_i, published_as>>
     ELSE /\ draw_pc' = "idle"
          /\ draw_detections' = NoRef
          /\ draw_i' = 0
          /\ drawn' = <<>>
          /\ label_tops' = <<>>
          /\ heap' = Collect(heap, latest_detections, scaled_detections, NoRef)
          /\ published_as' = CollectHistory(published_as, latest_detections,
                                            scaled_detections, NoRef)
  /\ UNCHANGED <<logged_len, draw_callback_count>>
  /\ UNCHANGED <<latest_detections, last_published, loop_log>>
  /\ UNCHANGED access_log
  /\ UNCHANGED <<script, detectorVars, draws_before, guiVars, mainVars, running, envVars, detVars>>

\* for detection in detections: draw the box and its label; the callback
\* returns when the list is exhausted
OnDrawStep ==
  /\ Alive /\ draw_pc = "loop"
  /\ IF draw_i <= Len(heap[draw_detections])
     THEN /\ drawn' = Append(drawn, heap[draw_detections][draw_i])
          /\ label_tops' = Append(label_tops, label_y(heap[draw_detections][draw_i].y))
          /\ draw_i' = draw_i + 1
          /\ UNCHANGED <<draw_pc, draw_detections, heap, published_as>>
     ELSE /\ draw_pc' = "idle"
          /\ draw_detections' = NoRef
          /\ draw_i' = 0
          /\ drawn' = <<>>
          /\ label_tops' = <<>>
          /\ heap' = Collect(heap, latest_detections, scaled_detections, NoRef)
          /\ published_as' = CollectHistory(published_as, latest_detections,
                                            scaled_detections, NoRef)
  /\ UNCHANGED <<logged_len, draw_callback_count>>
  /\ UNCHANGED <<latest_detections, last_published, loop_log>>
  /\ UNCHANGED access_log
  /\ UNCHANGED <<script, detectorVars, draws_before, guiVars, mainVars, running, envVars, detVars>>

Next ==
  \/ CheckModel \/ CreateDetector \/ ParseLaunch \/ GetElements
  \/ StartDetectionThread \/ SetPlaying \/ Settle
  \/ DispatchBusMessage \/ MainLoopReturns \/ KeyboardInterrupt
  \/ Cleanup \/ Join \/ Report
  \/ CameraFrame \/ CameraFault
  \/ WhileRunning \/ PullSample \/ MapBuffer \/ BuildFrame
  \/ UnmapBuffer \/ learning_UnmapBuffer \/ Detect \/ ScaleAppend \/ Publish \/ Except
  \/ OnDrawEnter \/ OnDrawRead \/ OnDrawStep

Spec == Init /\ [][Next]_vars

\* the detection thread is scheduled: a step it can take is eventually taken
DetectionStep ==
  \/ WhileRunning \/ PullSample \/ MapBuffer \/ BuildFrame
  \/ UnmapBuffer \/ learning_UnmapBuffer \/ Detect \/ ScaleAppend \/ Publish \/ Except

FairSpec == Spec /\ WF_vars(DetectionStep)

\* learning/webcam_yolo_detection.py alone: every step but the app's unmap
LearningInit == Init /\ script = "learning"

LearningNext ==
  \/ CheckModel \/ CreateDetector \/ ParseLaunch \/ GetElements
  \/ StartDetectionThread \/ SetPlaying \/ Settle
  \/ DispatchBusMessage \/ MainLoopReturns \/ KeyboardInterrupt
  \/ Cleanup \/ Join \/ Report
  \/ CameraFrame \/ CameraFault
  \/ WhileRunning \/ PullSample \/ MapBuffer \/ BuildFrame
  \/ learning_UnmapBuffer \/ Detect \/ ScaleAppend \/ Publish \/ Except
  \/ OnDrawEnter \/ OnDrawRead \/ OnDrawStep

LearningFairSpec == LearningInit /\ [][LearningNext]_vars /\ WF_vars(DetectionStep)

(***************************************************************************)
(* coco_classes.py: the class names and get_class_name.                    *)
(***************************************************************************)
IdMargin == 20     \* how far below 0 and above the last index the ids range

ClassIds == (-IdMargin)..(Len(COCO_CLASSES) - 1 + IdMargin)

ClassNameInit == ModuleLevel /\ queried_id \in ClassIds /\ access_log = Untraced

\* name = get_class_name(class_id): the function reads COCO_CLASSES and its
\* argument and assigns nothing but its result
get_class_name_call ==
  /\ class_name = NotCalled
  /\ class_name' = get_class_name(queried_id)
  /\ UNCHANGED <<script, conf_threshold, predictions, queried_id, output_shape, decoded_as>>
  /\ UNCHANGED <<draws_before, guiVars, access_log>>
  /\ UNCHANGED <<mainVars, running, envVars, detVars, drawVars, boardVars>>

ClassNameSpec == ClassNameInit /\ [][get_class_name_call]_vars

(***************************************************************************)
(* A run that has lasted a while: main() is in its main loop, the detection *)
(* thread is about to test running, and the draw callback has been invoked  *)
(* LogEvery - 1 times, so that its next invocation writes the periodic log  *)
(* line. Nothing is published yet; the frame counter and the history        *)
(* variables start here.                                                    *)
(***************************************************************************)
LongRunInit ==
  /\ script \in Scripts
  /\ conf_threshold = CONF_THRESHOLD
  /\ predictions = <<>>
  /\ queried_id = 0
  /\ class_name = NotCalled
  /\ output_shape = NoSession
  /\ decoded_as = "none"
  /\ main_pc = "run"
  /\ exit_code = NoExit
  /\ pipeline = "PLAYING"
  /\ stream = "live"
  /\ bus = <<>>
  /\ main_loop = "created"
  /\ running = TRUE
  /\ latest_detections = InitialList
  /\ heap = [i \in ListIds |-> <<>>]
  /\ appsink = <<>>
  /\ produced = 0
  /\ det_pc = "while"
  /\ sample = NoSample
  /\ mapped = FALSE
  /\ detections = <<>>
  /\ scaled_detections = NoRef
  /\ draw_pc = "idle"
  /\ draw_detections = NoRef
  /\ draw_i = 0
  /\ drawn = <<>>
  /\ label_tops = <<>>
  /\ logged_len = -1
  /\ draw_callback_count = LogEvery - 1
  /\ published_as = [i \in ListIds |-> IF i = InitialList THEN << <<>> >> ELSE Unpublished]
  /\ last_published = <<>>
  /\ loop_log = <<>>
  /\ interrupted = FALSE
  /\ exit_cause = "none"
  /\ draws_before = LogEvery - 1
  /\ WidgetSetup
  /\ access_log = Untraced

LongRunNext ==
  \/ DispatchBusMessage \/ MainLoopReturns \/ KeyboardInterrupt
  \/ Cleanup \/ Join \/ Report
  \/ CameraFrame \/ CameraFault
  \/ WhileRunning \/ PullSample \/ MapBuffer \/ BuildFrame
  \/ UnmapBuffer \/ learning_UnmapBuffer \/ Detect \/ ScaleAppend \/ Publish \/ Except
  \/ OnDrawEnter \/ OnDrawRead \/ OnDrawStep

LongRunSpec == LongRunInit /\ [][LongRunNext]_vars

\* the same program, with the record of accesses kept
AccessInit == ModuleLevel /\ queried_id = 0 /\ access_log = Traced

AccessSpec == AccessInit /\ [][Next]_vars

(***************************************************************************)
(* The detectors. The app builds a YOLODetector (yolo_detector.py), the    *)
(* learning script a YOLODetectorNMS (yolo_detector_nmsTrue.py). Numbers   *)
(* are whole: pixels for coordinates, percent for scores and thresholds.   *)
(* The widths and heights of the tensors are even, so that w / 2 is exact. *)
(***************************************************************************)
MaxCandidates == 2      \* candidates in one tensor
ScoreColumns == 2       \* class-score channels of a raw tensor
len_COCO_CLASSES == 80

\* conf_threshold of the app and the learning script, the constructor's default,
\* and a threshold above every usual score
Thresholds == {CONF_THRESHOLD, 65, 95}

Lists(S, n) == UNION {[1..k -> S] : k \in 0..n}
Range(s) == {s[k] : k \in 1..Len(s)}
Min2(a, b) == IF a <= b THEN a ELSE b
Max2(a, b) == IF a >= b THEN a ELSE b

\* one candidate of a raw tensor: its box <<cx, cy, w, h>> and its class scores,
\* top for class cls and a low score for the others
RawCandidate(box, top, cls) ==
  box \o [c \in 1..ScoreColumns |-> IF c = cls + 1 THEN top ELSE 10]

RawCandidates ==
  { RawCandidate(<<50, 50, 100, 100>>, 90, 0),
    RawCandidate(<<65, 65, 70, 70>>, 80, 1),
    RawCandidate(<<52, 50, 100, 100>>, 60, 0),
    RawCandidate(<<300, 300, 40, 40>>, 50, 1),
    RawCandidate(<<200, 200, 0, 20>>, 70, 0),
    RawCandidate(<<400, 100, 60, 80>>, 40, 1) }

\* the session output of a raw model: shape (1, 4 + classes, candidates)
RawPredictions ==
  { << [j \in 1..(4 + ScoreColumns) |-> [i \in 1..Len(rows) |-> rows[i][j]]] >> :
      rows \in Lists(RawCandidates, MaxCandidates) }

\* candidates <<x1, y1, x2, y2, confidence, class_id>> of an NMS-baked model
NmsCandidates ==
  { <<10, 10, 50, 50, 90, 2>>,
    <<20, 20, 60, 70, 50, 0>>,
    <<30, 30, 30, 60, 80, 1>>,
    <<40, 40, 20, 60, 75, 3>>,
    <<0, 0, 40, 40, 85, 80>>,
    <<0, 0, 40, 40, 70, -1>>,
    <<5, 5, 45, 45, 120, 79>> }

\* the session output of an NMS-baked model: shape (1, candidates, 6)
NmsPredictions == { <<rows>> : rows \in Lists(NmsCandidates, MaxCandidates) }

\* m.T of a two-dimensional array
Transpose(m) == [i \in 1..Len(m[1]) |-> [j \in 1..Len(m) |-> m[j][i]]]

np_max(s) == CHOOSE v \in Range(s) : \A u \in Range(s) : u <= v

\* np.argmax: the first position of the maximum, counted from 0
np_argmax(s) ==
  (CHOOSE i \in 1..Len(s) : s[i] = np_max(s) /\ \A j \in 1..(i - 1) : s[j] < s[i]) - 1

\* a[mask]: the entries of a whose mask entry is True, in order
Masked(a, mask) ==
  LET idx == SelectSeq([k \in 1..Len(a) |-> k], LAMBDA k : mask[k])
  IN [n \in 1..Len(idx) |-> a[idx[n]]]

\* a plausible slip: the far corner is taken a whole width away from the centre
xywh_to_xyxy_full_width(boxes) ==
  [k \in 1..Len(boxes) |->
     << boxes[k][1] - (boxes[k][3] \div 2), boxes[k][2] - (boxes[k][4] \div 2),
        boxes[k][1] + boxes[k][3], boxes[k][2] + boxes[k][4] >>]

xywh_to_xyxy(boxes) ==
  [k \in 1..Len(boxes) |->
     << boxes[k][1] - (boxes[k][3] \div 2), boxes[k][2] - (boxes[k][4] \div 2),
        boxes[k][1] + (boxes[k][3] \div 2), boxes[k][2] + (boxes[k][4] \div 2) >>]

\* cv2.dnn.NMSBoxes reads a row <<a, b, c, d>> of bboxes as the rectangle with
\* corner (a, b), width c and height d
RectArea(r) == r[3] * r[4]
RectEmpty(r) == r[3] <= 0 \/ r[4] <= 0

RectIntersection(r, s) ==
  LET x1 == Max2(r[1], s[1])
      y1 == Max2(r[2], s[2])
      width == Min2(r[1] + r[3], s[1] + s[3]) - x1
      height == Min2(r[2] + r[4], s[2] + s[4]) - y1
  IN IF RectEmpty(r) \/ RectEmpty(s) \/ width <= 0 \/ height <= 0
     THEN <<0, 0, 0, 0>> ELSE <<x1, y1, width, height>>

\* overlap > nms_threshold, the overlap being intersection over union, and 1 for
\* two rectangles without area
OverThreshold(r, s) ==
  LET Aa == RectArea(r)
      Ab == RectArea(s)
      Aab == RectArea(RectIntersection(r, s))
  IN IF Aa + Ab <= 0 THEN TRUE
     ELSE Aab * 100 > NMS_THRESHOLD * (Aa + Ab - Aab)

\* the positions idxs by score, highest first, equal scores in their order
RECURSIVE SortedByScore(_, _)
SortedByScore(idxs, scores) ==
  IF idxs = {} THEN <<>>
  ELSE LET best == CHOOSE i \in idxs :
                     \A j \in idxs : scores[j] < scores[i]
                                     \/ (scores[j] = scores[i] /\ i <= j)
       IN <<best>> \o SortedByScore(idxs \ {best}, scores)

\* a candidate is kept unless it overlaps one kept before it
RECURSIVE NMSFast(_, _, _)
NMSFast(order, bboxes, kept) ==
  IF order = <<>> THEN kept
  ELSE LET idx == Head(order)
           keep == \A n \in 1..Len(kept) : ~OverThreshold(bboxes[idx], bboxes[kept[n]])
       IN NMSFast(Tail(order), bboxes, IF keep THEN Append(kept, idx) ELSE kept)

NMSBoxes(bboxes, scores, score_threshold) ==
  NMSFast(SortedByScore({i \in 1..Len(scores) : scores[i] > score_threshold}, scores),
          bboxes, <<>>)

\* YOLODetector.non_max_suppression(boxes, scores): boxes are corner rows
non_max_suppression(boxes, scores) == NMSBoxes(boxes, scores, conf_threshold)

\* a plausible slip: the indices kept by the suppression, which count the
\* filtered candidates, are used on the boxes of all candidates
YOLODetector_postprocess_all_boxes(preds) ==
  LET rows == Transpose(preds[1])
      boxes == [k \in 1..Len(rows) |-> SubSeq(rows[k], 1, 4)]
      scores == [k \in 1..Len(rows) |-> SubSeq(rows[k], 5, Len(rows[k]))]
      class_ids == [k \in 1..Len(rows) |-> np_argmax(scores[k])]
      confidences == [k \in 1..Len(rows) |-> np_max(scores[k])]
      mask == [k \in 1..Len(rows) |-> confidences[k] > conf_threshold]
      filtered_boxes == Masked(boxes, mask)
      filtered_class_ids == Masked(class_ids, mask)
      filtered_confidences == Masked(confidences, mask)
      boxes_xyxy == xywh_to_xyxy(filtered_boxes)
      keep_indices == non_max_suppression(boxes_xyxy, filtered_confidences)
  IN IF Len(filtered_boxes) = 0 THEN <<>>
     ELSE [n \in 1..Len(keep_indices) |->
             [x |-> boxes[keep_indices[n]][1],
              y |-> boxes[keep_indices[n]][2],
              w |-> boxes[keep_indices[n]][3],
              h |-> boxes[keep_indices[n]][4],
              class_id |-> filtered_class_ids[keep_indices[n]],
              confidence |-> filtered_confidences[keep_indices[n]]]]

\* YOLODetector.postprocess(predictions)
YOLODetector_postprocess(preds) ==
  LET rows == Transpose(preds[1])
      boxes == [k \in 1..Len(rows) |-> SubSeq(rows[k], 1, 4)]
      scores == [k \in 1..Len(rows) |-> SubSeq(rows[k], 5, Len(rows[k]))]
      class_ids == [k \in 1..Len(rows) |-> np_argmax(scores[k])]
      confidences == [k \in 1..Len(rows) |-> np_max(scores[k])]
      mask == [k \in 1..Len(rows) |-> confidences[k] > conf_threshold]
      filtered_boxes == Masked(boxes, mask)
      filtered_class_ids == Masked(class_ids, mask)
      filtered_confidences == Masked(confidences, mask)
      boxes_xyxy == xywh_to_xyxy(filtered_boxes)
      keep_indices == non_max_suppression(boxes_xyxy, filtered_confidences)
  IN IF Len(filtered_boxes) = 0 THEN <<>>
     ELSE [n \in 1..Len(keep_indices) |->
             [x |-> filtered_boxes[keep_indices[n]][1],
              y |-> filtered_boxes[keep_indices[n]][2],
              w |-> filtered_boxes[keep_indices[n]][3],
              h |-> filtered_boxes[keep_indices[n]][4],
              class_id |-> filtered_class_ids[keep_indices[n]],
              confidence |-> filtered_confidences[keep_indices[n]]]]

\* a plausible slip: the confidence filter is left out
ConfidenceNotFiltered(confidence) == FALSE

\* FILTER 1: if confidence < self.conf_threshold: continue
LowConfidence(confidence) == confidence < conf_threshold

\* FILTER 2: if class_id < 0 or class_id >= len(COCO_CLASSES): continue
InvalidClass(class_id) == class_id < 0 \/ class_id >= len_COCO_CLASSES

\* a plausible slip: only boxes of negative size are rejected
NegativeBox(width, height) == width < 0 \/ height < 0

\* FILTER 3: if width <= 0 or height <= 0: continue
InvalidBox(width, height) == width <= 0 \/ height <= 0

\* corner format to drawing format: x_topleft = x1, y_topleft = y1,
\* width = x2 - x1, height = y2 - y1
xyxy_to_drawing(x1, y1, x2, y2) == <<x1, y1, x2 - x1, y2 - y1>>

\* for pred in predictions: ...; detections.append(detection)
RECURSIVE for_pred(_, _)
for_pred(preds, dets) ==
  IF preds = <<>> THEN dets
  ELSE LET pred == Head(preds)
           confidence == pred[5]
           class_id == pred[6]
           box == xyxy_to_drawing(pred[1], pred[2], pred[3], pred[4])
       IN IF LowConfidence(confidence) \/ InvalidClass(class_id)
             \/ InvalidBox(box[3], box[4])
          THEN for_pred(Tail(preds), dets)
          ELSE for_pred(Tail(preds),
                        Append(dets, [x |-> box[1], y |-> box[2],
                                      w |-> box[3], h |-> box[4],
                                      class_id |-> class_id,
                                      confidence |-> confidence]))

\* YOLODetectorNMS.postprocess(predictions)
YOLODetectorNMS_postprocess(preds) == for_pred(preds[1], <<>>)

\* the detection thread has a frame and calls detect
InDetect ==
  /\ script \in Scripts
  /\ conf_threshold \in Thresholds
  /\ queried_id = 0
  /\ class_name = NotCalled
  /\ decoded_as = "none"
  /\ main_pc = "run"
  /\ exit_code = NoExit
  /\ pipeline = "PLAYING"
  /\ stream = "live"
  /\ bus = <<>>
  /\ main_loop = "created"
  /\ running = TRUE
  /\ latest_detections = InitialList
  /\ heap = [i \in ListIds |-> <<>>]
  /\ appsink = <<>>
  /\ produced = 1
  /\ det_pc = "detect"
  /\ sample = NoSample
  /\ mapped = (script = "learning")
  /\ detections = <<>>
  /\ scaled_detections = NoRef
  /\ draw_pc = "idle"
  /\ draw_detections = NoRef
  /\ draw_i = 0
  /\ drawn = <<>>
  /\ label_tops = <<>>
  /\ logged_len = -1
  /\ draw_callback_count = 0
  /\ published_as = [i \in ListIds |-> IF i = InitialList THEN << <<>> >> ELSE Unpublished]
  /\ last_published = <<>>
  /\ loop_log = <<>>
  /\ interrupted = FALSE
  /\ exit_cause = "none"
  /\ draws_before = 0
  /\ WidgetSetup
  /\ access_log = Untraced

\* output_shape = self.session.get_outputs()[0].shape, the candidate dimension
\* resolved: (1, 4 + classes, N) for a raw model, (1, N, 6) for an NMS-baked one
RawShape(preds) == <<1, Len(preds[1]), Len(preds[1][1])>>
NmsShape(preds) == <<1, Len(preds[1]), 6>>

\* the app runs its detector over a raw model, the learning script runs its
\* detector over an NMS-baked model
DetectorInit ==
  /\ InDetect
  /\ predictions \in (IF script = "app" THEN RawPredictions ELSE NmsPredictions)
  /\ output_shape = IF script = "app" THEN RawShape(predictions) ELSE NmsShape(predictions)

\* MODEL_PATH names any model file: either detector over either kind of model
AnyModelInit ==
  /\ InDetect
  /\ \E nms_baked \in BOOLEAN :
       IF nms_baked
       THEN predictions \in NmsPredictions /\ output_shape = NmsShape(predictions)
       ELSE predictions \in RawPredictions /\ output_shape = RawShape(predictions)

\* load_model of YOLODetectorNMS: if len(output_shape) != 3 or output_shape[2] != 6
\* it prints a WARNING; the detector is built all the same
UnexpectedShape(shape) == Len(shape) # 3 \/ shape[3] # 6

\* scores = predictions[:, 4:] of the transposed tensor has output_shape[1] - 4
\* columns; np.argmax over no column raises ValueError
YOLODetector_raises == output_shape[2] <= 4

\* x1, y1, x2, y2, confidence, class_id = pred raises ValueError for a row that
\* does not hold six values
YOLODetectorNMS_raises == output_shape[2] > 0 /\ output_shape[3] # 6

\* YOLODetector.detect: detections = self.postprocess(predictions); return detections
YOLODetector_detect ==
  /\ script = "app" /\ det_pc = "detect"
  /\ decoded_as' = "A"
  /\ IF YOLODetector_raises
     THEN detections' = detections /\ det_pc' = "except"
     ELSE detections' = YOLODetector_postprocess(predictions) /\ det_pc' = "detected"
  /\ UNCHANGED <<sample, mapped, scaled_detections>>
  /\ UNCHANGED <<conf_threshold, predictions, queried_id, class_name, output_shape>>
  /\ UNCHANGED access_log
  /\ UNCHANGED <<script, draws_before, guiVars, mainVars, running, envVars, drawVars, boardVars>>

\* YOLODetectorNMS.detect: detections = self.postprocess(predictions); return detections
YOLODetectorNMS_detect ==
  /\ script = "learning" /\ det_pc = "detect"
  /\ decoded_as' = "B"
  /\ IF YOLODetectorNMS_raises
     THEN detections' = detections /\ det_pc' = "except"
     ELSE detections' = YOLODetectorNMS_postprocess(predictions) /\ det_pc' = "detected"
  /\ UNCHANGED <<sample, mapped, scaled_detections>>
  /\ UNCHANGED <<conf_threshold, predictions, queried_id, class_name, output_shape>>
  /\ UNCHANGED access_log
  /\ UNCHANGED <<script, draws_before, guiVars, mainVars, running, envVars, drawVars, boardVars>>

DetectorNext == YOLODetector_detect \/ YOLODetectorNMS_detect

DetectorSpec == DetectorInit /\ [][DetectorNext]_vars

AnyModelSpec == AnyModelInit /\ [][DetectorNext]_vars

(***************************************************************************)
(* A run in which the detection thread has published boxes at and near the *)
(* top edge of the picture, and the draw callback is about to be invoked.  *)
(***************************************************************************)
TopEdgeYs == {-30, 0, 10, 20, 37}

TopEdgeDet(y) == [x |-> 100, y |-> y, w |-> 30, h |-> 40, class_id |-> 0,
                  class_name |-> get_class_name(0), confidence |-> 90]

TopEdgeLists == Lists({TopEdgeDet(y) : y \in TopEdgeYs}, MaxDets)

TopEdgeInit ==
  /\ script \in Scripts
  /\ conf_threshold = CONF_THRESHOLD
  /\ predictions = <<>>
  /\ queried_id = 0
  /\ class_name = NotCalled
  /\ output_shape = NoSession
  /\ decoded_as = "none"
  /\ main_pc = "run"
  /\ exit_code = NoExit
  /\ pipeline = "PLAYING"
  /\ stream = "live"
  /\ bus = <<>>
  /\ main_loop = "created"
  /\ running = TRUE
  /\ latest_detections = "list1"
  /\ \E published \in TopEdgeLists :
       /\ heap = [i \in ListIds |-> IF i = "list1" THEN published ELSE <<>>]
       /\ published_as = [i \in ListIds |-> IF i = "list1" THEN <<published>> ELSE Unpublished]
       /\ last_published = published
  /\ appsink = <<>>
  /\ produced = 1
  /\ det_pc = "pull"
  /\ sample = NoSample
  /\ mapped = FALSE
  /\ detections = <<>>
  /\ scaled_detections = NoRef
  /\ draw_pc = "idle"
  /\ draw_detections = NoRef
  /\ draw_i = 0
  /\ drawn = <<>>
  /\ label_tops = <<>>
  /\ logged_len = -1
  /\ draw_callback_count = 0
  /\ loop_log = <<"publish">>
  /\ interrupted = FALSE
  /\ exit_cause = "none"
  /\ draws_before = 0
  /\ WidgetSetup
  /\ access_log = Untraced

OnDraw == OnDrawEnter \/ OnDrawRead \/ OnDrawStep

TopEdgeSpec == TopEdgeInit /\ [][OnDraw]_vars

(***************************************************************************)
(* main.py and gstreamer_manager.py: the window with the preview button    *)
(* and the detection button. Every slot runs to its end on the GUI thread  *)
(* before the next click is delivered.                                     *)
(***************************************************************************)
MaxClicks == 6      \* clicks of the user in one run

Buttons == {"preview", "detect"}

\* def start_preview(): the names the function accepts as arguments
start_preview_parameters == {}

\* start_preview called with the keyword arguments kwargs, the camera starting or
\* not: an unexpected keyword raises TypeError before the body runs; the body
\* sets camera_active in its try or in its except and has no return statement
start_preview(kwargs, camera_ok) ==
  IF ~(kwargs \subseteq start_preview_parameters)
  THEN [raised |-> "TypeError", value |-> "None", camera_active |-> camera_active]
  ELSE [raised |-> "none", value |-> "None", camera_active |-> <<camera_ok>>]

\* if success: the truth value of what the call returned
bool(value) == value = "True"

\* on_preview_button_clicked(); an exception leaves the slot at the call, and
\* the event loop goes on
on_preview_button_clicked ==
  IF preview_button.text = "Start Cam Preview"
  THEN \E camera_ok \in BOOLEAN :
         LET success == start_preview({"camera_device"}, camera_ok)
         IN /\ preview_button' = [preview_button EXCEPT !.text = "Stop Cam Preview"]
            /\ camera_active' = success.camera_active
            /\ slot_raised' = success.raised
            /\ detect_button' = IF success.raised = "none" /\ bool(success.value)
                                THEN [detect_button EXCEPT !.enabled = TRUE]
                                ELSE detect_button
  ELSE /\ preview_button' = [preview_button EXCEPT !.text = "Start Cam Preview"]
       /\ detect_button' = [detect_button EXCEPT !.text = "Start Object Detection",
                                                 !.enabled = FALSE]
       /\ slot_raised' = "none"
       /\ UNCHANGED camera_active

\* on_detection_button_clicked()
on_detection_button_clicked ==
  /\ detect_button' = [detect_button EXCEPT !.text =
                         IF @ = "Start Object Detection" THEN "Stop Object Detection"
                         ELSE "Start Object Detection"]
  /\ slot_raised' = "none"
  /\ UNCHANGED <<preview_button, camera_active>>

RuntimeAtRest ==
  UNCHANGED <<script, detectorVars, draws_before, access_log, mainVars, running,
              envVars, detVars, drawVars, boardVars>>

\* preview_button.clicked.connect(on_preview_button_clicked)
ClickPreview ==
  /\ Len(clicks) < MaxClicks
  /\ clicks' = Append(clicks, "preview")
  /\ on_preview_button_clicked
  /\ RuntimeAtRest

\* detect_button.clicked.connect(on_detection_button_clicked): a disabled button
\* emits no clicked signal
ClickDetect ==
  /\ Len(clicks) < MaxClicks
  /\ clicks' = Append(clicks, "detect")
  /\ IF detect_button.enabled THEN on_detection_button_clicked
     ELSE UNCHANGED <<preview_button, detect_button, camera_active, slot_raised>>
  /\ RuntimeAtRest

\* the window is shown and app.exec() runs; the scripts are not running
GuiInit == Init /\ script = "app"

GuiNext == ClickPreview \/ ClickDetect

GuiSpec == GuiInit /\ [][GuiNext]_vars

(***************************************************************************)
(* Properties.                                                             *)
(***************************************************************************)
Visible == {latest_detections, draw_detections} \ {NoRef}
Faulted == \E k \in 1..Len(loop_log) : loop_log[k] # "publish"

\* C1: in the app's detection_loop, detect(frame) runs only while the buffer
\* behind the frame is still mapped (buffer.unmap never precedes the end of detect).
C1_DetectOnlyWhileMapped == (script = "app" /\ det_pc = "detect") => mapped

\* C2: in the app, once the bus handler has quit the main loop for an ERROR or
\* EOS message, the detection loop has been signalled to stop (running is False).
C2_BusFaultStopsLoop == (script = "app" /\ main_loop = "quit") => ~running

\* C3: once running is False, no step writes latest_detections any more.
C3_NoPublishAfterStop == [][~running => latest_detections' = latest_detections]_vars

\* C4: every list visible through latest_detections or held by the draw callback
\* was published as a whole and is unchanged since; the list under construction
\* is private to the detection thread; a published list is the complete scaled
\* result; what one callback invocation has drawn is a prefix of one published list.
C4_PublishIsAtomic ==
  /\ \A id \in Visible : published_as[id] = <<heap[id]>>
  /\ det_pc \in {"scale", "unmap_after"} => scaled_detections \notin Visible
  /\ (scaled_detections # NoRef /\ scaled_detections = latest_detections)
       => heap[latest_detections] = ScaleAll(detections)
  /\ draw_pc = "loop" => \E whole \in DOMAIN published_as[draw_detections] :
                           LET list == published_as[draw_detections][whole]
                           IN draw_i - 1 <= Len(list) /\ drawn = SubSeq(list, 1, draw_i - 1)

\* the callback is half way through a list of two while the detection thread
\* has meanwhile published the next list
C4_Witness ==
  /\ draw_pc = "loop" /\ Len(drawn) = 1 /\ Len(heap[draw_detections]) = 2
  /\ draw_detections # latest_detections
  /\ loop_log = <<"publish", "publish">>

\* C5: exit status 0 only after a clean shutdown; non-zero when the model file is
\* missing, the detector fails to load, parse_launch fails or set_state(PLAYING)
\* returns FAILURE.
C5_ExitCodeTellsOutcome ==
  /\ exit_code = <<0>> => exit_cause = "shutdown"
  /\ exit_cause \in {"model_missing", "load_failed", "parse_failed", "play_failed"}
       => exit_code # <<0>>

\* C6: a malformed sample or a raising detect does not end the loop: the caught
\* exception leads back to the loop head, the loop is left only at its while test
\* with running False, and after such a fault a valid frame still goes on to
\* detect and the scaled result of detect is still published.
C6_LoopSurvivesFaults ==
  [][ /\ det_pc = "except" => det_pc' \in {"except", "while"}
      /\ det_pc' = "exited" => (det_pc = "exited" \/ (det_pc = "while" /\ ~running))
      /\ (Faulted /\ det_pc = "frame" /\ sample = "ok")
           => det_pc' \in {"frame", "unmap", "detect"}
      /\ (Faulted /\ det_pc = "unmap") => det_pc' \in {"unmap", "detect"}
      /\ (Faulted /\ det_pc = "detect" /\ loop_log' = loop_log)
           => det_pc' \in {"detect", "scale", "unmap_after"}
      /\ (Faulted /\ det_pc = "unmap_after") => det_pc' \in {"unmap_after", "scale"}
      /\ (Faulted /\ det_pc = "scale" /\ det_pc' # "scale")
           => /\ det_pc' = "while"
              /\ latest_detections' = scaled_detections
              /\ heap'[latest_detections'] = ScaleAll(detections) ]_vars

\* the first sample was malformed, the second was detected and its result published
C6_Witness ==
  /\ loop_log = <<"bad_frame", "publish">>
  /\ heap[latest_detections] = ScaleAll(detections) /\ detections # <<>>
  /\ det_pc = "pull" /\ running

\* C7: the frame pull returns after a bounded wait: once the stop signal is raised,
\* a detection thread waiting in the pull can go on by itself, with no frame
\* arriving and the pipeline not torn down.
C7_PullReturnsWhenStopped ==
  (Alive /\ det_pc = "pull" /\ ~running) => ENABLED PullSample

\* C8: the detection thread is started before the pipeline is asked to go to
\* PLAYING: whenever the pipeline plays, or a frame has been produced, the
\* consumer thread exists.
C8_ThreadBeforePlaying ==
  (pipeline = "PLAYING" \/ produced > 0 \/ appsink # <<>>
     \/ main_pc \in {"sleep", "run", "cleanup", "join", "report"})
    => det_pc # "idle"

\* a frame is queued in the playing pipeline and the thread is there to pull it
C8_Witness == pipeline = "PLAYING" /\ appsink # <<>> /\ det_pc = "pull"

C10_LastPublishWins ==
  /\ [](heap[latest_detections] = last_published)
  /\ [][(draw_pc = "read" /\ draw_pc' = "loop")
          => (draw_detections' = latest_detections
              /\ heap[draw_detections'] = last_published)]_vars
  /\ [][(draw_pc = "read" /\ draw_pc' = "idle") => last_published = <<>>]_vars

\* two publishes, then a snapshot that holds the second list
C10_Witness ==
  /\ loop_log = <<"publish", "publish">>
  /\ draw_pc = "loop" /\ draw_i = 1 /\ draw_detections = latest_detections

\* C11: whatever the threshold and the tensor, every detection that detect
\* returns, from either detector, has a confidence of at least the threshold
C11_ConfidenceAtLeastThreshold ==
  \A k \in 1..Len(detections) : detections[k].confidence >= conf_threshold

C11_Witness ==
  /\ script = "learning" /\ det_pc = "detected"
  /\ Len(predictions[1]) = 2 /\ Len(detections) = 1
  /\ \E k \in 1..2 : predictions[1][k][5] < conf_threshold

\* C12: no two detections that the raw detector returns have boxes (centre
\* x, y and size w, h, as the model produced them) whose intersection over
\* union exceeds the NMS threshold
C12_NoOverlappingPair ==
  script = "app" =>
    \A i, j \in 1..Len(detections) : i < j =>
      LET a == detections[i]
          b == detections[j]
          iw == Min2(a.x + (a.w \div 2), b.x + (b.w \div 2))
                  - Max2(a.x - (a.w \div 2), b.x - (b.w \div 2))
          ih == Min2(a.y + (a.h \div 2), b.y + (b.h \div 2))
                  - Max2(a.y - (a.h \div 2), b.y - (b.h \div 2))
          inter == IF iw > 0 /\ ih > 0 THEN iw * ih ELSE 0
          union == a.w * a.h + b.w * b.h - inter
      IN inter * 100 <= NMS_THRESHOLD * union

\* C13: every detection of the raw detector is the top-left corner
\* (cx - w/2, cy - h/2) and the size (w, h) of a candidate (cx, cy, w, h)
C13_TopLeftOfCandidate ==
  (script = "app" /\ det_pc = "detected") =>
    \A k \in 1..Len(detections) :
      \E i \in 1..Len(predictions[1][1]) :
        LET cx == predictions[1][1][i]
            cy == predictions[1][2][i]
            w == predictions[1][3][i]
            h == predictions[1][4][i]
        IN /\ detections[k].x = cx - (w \div 2)
           /\ detections[k].y = cy - (h \div 2)
           /\ detections[k].w = w
           /\ detections[k].h = h

C15_DetectionInvariant ==
  \A k \in 1..Len(detections) :
    /\ detections[k].w > 0
    /\ detections[k].h > 0
    /\ 0 <= detections[k].confidence /\ detections[k].confidence <= 100
    /\ 0 <= detections[k].class_id /\ detections[k].class_id < 80

\* C16: the published list holds, for every detection d of detect, exactly
\* x = d.x * DISPLAY_WIDTH / DETECTION_WIDTH, w likewise, and
\* y = d.y * DISPLAY_HEIGHT / DETECTION_HEIGHT, h likewise
C16_ExactRemap ==
  (scaled_detections # NoRef /\ scaled_detections = latest_detections) =>
    /\ Len(heap[latest_detections]) = Len(detections)
    /\ \A k \in 1..Len(detections) :
         /\ heap[latest_detections][k].x * DETECTION_WIDTH = detections[k].x * DISPLAY_WIDTH
         /\ heap[latest_detections][k].w * DETECTION_WIDTH = detections[k].w * DISPLAY_WIDTH
         /\ heap[latest_detections][k].y * DETECTION_HEIGHT = detections[k].y * DISPLAY_HEIGHT
         /\ heap[latest_detections][k].h * DETECTION_HEIGHT = detections[k].h * DISPLAY_HEIGHT

C18_OnDrawLeavesResult ==
  [][(drawVars' # drawVars) =>
       /\ latest_detections' = latest_detections
       /\ heap'[latest_detections] = heap[latest_detections]]_vars

C18_Witness ==
  /\ draw_pc = "loop" /\ draw_detections = latest_detections
  /\ Len(heap[latest_detections]) = 2 /\ drawn = heap[latest_detections]

\* C19: on_draw never waits for the detection thread: while the process lives,
\* its next step can be taken wherever the detection thread is, and the for
\* loop is at most one step past the end of the list it draws
C19_OnDrawNeverWaits ==
  Alive =>
    /\ draw_pc = "read" => ENABLED OnDrawRead
    /\ draw_pc = "loop" => /\ ENABLED OnDrawStep
                           /\ draw_i <= Len(heap[draw_detections]) + 1
                           /\ Len(heap[draw_detections]) <= MaxDets

C19_Witness ==
  /\ Alive /\ draw_pc = "loop" /\ draw_i = 1
  /\ det_pc = "pull" /\ appsink = <<>> /\ ~PullReturnsNone

C21_StartupErrorBeforePipeline ==
  exit_cause \in {"model_missing", "load_failed"} =>
    /\ ~Alive /\ exit_code = <<1>>
    /\ pipeline = "none" /\ main_loop = "none"
    /\ produced = 0 /\ appsink = <<>>
    /\ det_pc = "idle" /\ draw_callback_count = 0

C21_Witness == exit_cause = "load_failed" /\ main_pc = "exited" /\ pipeline = "none"

\* C22: latest_detections is the only global that one context (detection thread,
\* draw callback, main thread with its bus handler) writes and another context
\* reads or writes
C22_OnlyResultSlotShared ==
  \A a, b \in access_log.seen :
    (a.var = b.var /\ a.ctx # b.ctx /\ a.mode = "w") => a.var = "latest_detections"

\* C23: get_class_name returns the entry of COCO_CLASSES at the id for an id from
\* 0 to 79 and 'unknown' for any other whole id; it raises nothing and changes
\* nothing but its result
C23_NameOrUnknown ==
  /\ Len(COCO_CLASSES) = len_COCO_CLASSES
  /\ class_name # NotCalled =>
       /\ class_name # "IndexError"
       /\ (0 <= queried_id /\ queried_id < len_COCO_CLASSES) =>
            class_name = COCO_CLASSES[queried_id + 1]
       /\ (queried_id < 0 \/ queried_id >= len_COCO_CLASSES) => class_name = "unknown"
       /\ main_pc = "check_model" /\ running /\ draw_callback_count = 0
       /\ latest_detections = InitialList /\ heap[InitialList] = <<>>

C23_Witness == class_name = "unknown" /\ queried_id = len_COCO_CLASSES

C25_LifecycleIsMonotone ==
  [][/\ ~running => ~running'
     /\ det_pc = "exited" =>
          /\ det_pc' = "exited"
          /\ <<sample, mapped, detections, scaled_detections>>'
               = <<sample, mapped, detections, scaled_detections>>
          /\ latest_detections' = latest_detections
          /\ loop_log' = loop_log]_vars

\* the thread has left its loop after a publish while the pipeline still plays
\* and a frame waits in the appsink
C25_Witness ==
  /\ det_pc = "exited" /\ ~running /\ Alive
  /\ pipeline = "PLAYING" /\ appsink # <<>> /\ loop_log # <<>>

\* C26: an invocation of the app's on_draw takes the result from the slot once:
\* the object count it logs is the length of the list it draws
C26_LoggedCountIsDrawnList ==
  (script = "app" /\ draw_pc = "loop" /\ logged_len # -1)
    => logged_len = Len(heap[draw_detections])

\* C27: an iteration that is skipped (no sample, map failed) or fails (the frame
\* cannot be built, detect raises) changes neither the slot nor the list in it,
\* and ends at the loop head: the thread stays in its loop and the process
\* lives; the slot changes only in the step that ends a successful iteration
C27_FailedIterationLeavesResult ==
  [][/\ (/\ det_pc' # det_pc
         /\ \/ det_pc' = "except"
            \/ det_pc = "except"
            \/ (det_pc \in {"pull", "map"} /\ det_pc' = "while"))
        => /\ latest_detections' = latest_detections
           /\ heap'[latest_detections] = heap[latest_detections]
           /\ det_pc' \in {"except", "while"}
           /\ exit_code' = exit_code
     /\ latest_detections' # latest_detections
        => (det_pc = "scale" /\ det_pc' = "while")]_vars

\* the first frame was detected and its objects published; detect raised on the
\* second, and the published objects are still in the slot
C27_Witness ==
  /\ loop_log = <<"publish", "detect_raised">> /\ det_pc = "while"
  /\ heap[latest_detections] # <<>> /\ heap[latest_detections] = last_published

\* C28: the raw detector drops a candidate at its confidence filter exactly when
\* the candidate's top class score is below conf_threshold; a lone candidate
\* whose top score equals the threshold is therefore returned
C28_ThresholdCandidateSurvives ==
  (script = "app" /\ det_pc = "detected" /\ Len(predictions[1][1]) = 1) =>
    LET row == Transpose(predictions[1])[1]
        top == np_max(SubSeq(row, 5, Len(row)))
    IN (detections = <<>>) <=> (top < conf_threshold)

\* C29: of two candidates of the raw detector that pass the confidence filter, the
\* one with the higher score is returned, and the other is returned exactly when
\* the intersection over union of the two boxes (centre x, y and size w, h) does
\* not exceed the NMS threshold
C29_GreedyByDescendingScore ==
  (script = "app" /\ det_pc = "detected" /\ Len(predictions[1][1]) = 2) =>
    LET rows == Transpose(predictions[1])
        top(i) == np_max(SubSeq(rows[i], 5, Len(rows[i])))
        hi == IF top(1) >= top(2) THEN 1 ELSE 2
        lo == 3 - hi
        a == rows[hi]
        b == rows[lo]
        iw == Min2(a[1] + (a[3] \div 2), b[1] + (b[3] \div 2))
                - Max2(a[1] - (a[3] \div 2), b[1] - (b[3] \div 2))
        ih == Min2(a[2] + (a[4] \div 2), b[2] + (b[4] \div 2))
                - Max2(a[2] - (a[4] \div 2), b[2] - (b[4] \div 2))
        inter == IF iw > 0 /\ ih > 0 THEN iw * ih ELSE 0
        union == a[3] * a[4] + b[3] * b[4] - inter
        Returned(i) == \E k \in 1..Len(detections) : detections[k].confidence = top(i)
    IN (top(hi) > top(lo) /\ top(lo) > conf_threshold) =>
         /\ Returned(hi)
         /\ Returned(lo) <=> (inter * 100 <= NMS_THRESHOLD * union)

\* C30: a detector applies the decode that fits the output shape of its model:
\* the pre-suppressed decode (B) only to a model whose output is [1, N, 6], the
\* raw decode (A) only to a model whose output is not
C30_DecodeFitsOutputShape ==
  /\ decoded_as = "B" => ~UnexpectedShape(output_shape)
  /\ decoded_as = "A" => UnexpectedShape(output_shape)

\* C31: the label background of a drawn detection lies directly above the box
\* (top edge y - label_height) when that is on the surface, and directly below
\* the box (top edge y + h) otherwise; its top edge is never negative
C31_LabelAboveOrBelow ==
  \A k \in 1..Len(label_tops) :
    /\ label_tops[k] = IF drawn[k].y - label_height >= 0 THEN drawn[k].y - label_height
                       ELSE drawn[k].y + drawn[k].h
    /\ label_tops[k] >= 0

\* C32: a step in which the bus handler handles a WARNING or a STATE_CHANGED
\* message changes neither running nor the main loop, the pipeline state or
\* latest_detections; the handler returns True, and it goes on handling messages
C32_WarningChangesNothing ==
  /\ [][(/\ access_log'.handled # access_log.handled
          /\ access_log'.handled.type \in {"WARNING", "STATE_CHANGED"})
          => /\ running' = running /\ main_loop' = main_loop /\ pipeline' = pipeline
             /\ latest_detections' = latest_detections /\ heap' = heap
             /\ main_pc' = main_pc /\ exit_code' = exit_code
             /\ access_log'.handled.returned]_vars
  /\ [](access_log.handled.type # "none" => access_log.handled.returned)
  /\ []((/\ access_log.handled.type \in {"WARNING", "STATE_CHANGED"}
          /\ Alive /\ main_pc = "run" /\ main_loop = "created" /\ pipeline = "PLAYING")
          => ENABLED DispatchBusMessage)

\* a WARNING was handled while the detection thread was at work on a frame
C32_Witness ==
  /\ access_log.handled = [type |-> "WARNING", returned |-> TRUE]
  /\ running /\ main_loop = "created" /\ pipeline = "PLAYING" /\ det_pc = "detect"

\* C33: a buffer that was mapped is unmapped before the loop pulls its next
\* sample, whichever way the iteration ends: when the thread is at the loop head
\* or at the pull, no buffer is mapped
C33_UnmappedBeforeNextPull ==
  det_pc \in {"while", "pull", "exited"} => ~mapped

\* C34: when main() has returned after it started the detection thread, running
\* is False and the pipeline has been set to NULL
C34_ReturnStopsLoopAndPipeline ==
  (main_pc = "exited" /\ exit_cause \in {"play_failed", "shutdown"})
    => (~running /\ pipeline = "NULL")

\* C35: once main() is past detection_thread.join(timeout=2) and reports the
\* thread as stopped, the detection thread has left its loop
C35_ReportedStoppedIsStopped ==
  (Alive /\ main_pc = "report") => det_pc = "exited"

\* C36: each publish holds one entry per detection of that iteration's detect
\* call, in the same order, with class_id, class_name and confidence copied;
\* only x, y, w and h differ from the detection
C36_PublishKeepsEntries ==
  [][loop_log' = Append(loop_log, "publish") =>
       /\ Len(last_published') = Len(detections)
       /\ last_published' = heap'[latest_detections']
       /\ \A k \in 1..Len(detections) :
            /\ last_published'[k].class_id = detections[k].class_id
            /\ last_published'[k].class_name = detections[k].class_name
            /\ last_published'[k].confidence = detections[k].confidence
            /\ DOMAIN last_published'[k] = DOMAIN detections[k]
            /\ last_published'[k] =
                 [detections[k] EXCEPT !.x = last_published'[k].x,
                                       !.y = last_published'[k].y,
                                       !.w = last_published'[k].w,
                                       !.h = last_published'[k].h]]_vars

\* a result of two objects has been published: a person, then a bicycle
C36_Witness ==
  /\ loop_log # <<>> /\ Len(last_published) = 2 /\ Len(detections) = 2
  /\ last_published[1].class_name = "person" /\ last_published[2].class_name = "bicycle"
  /\ last_published[2].confidence = detections[2].confidence

\* C37: the detections returned by postprocess, of either detector, are those
\* of distinct candidates of the prediction tensor: each detection has the
\* box, the class id and the confidence of its own candidate
C37_DetectionsAreCandidates ==
  det_pc = "detected" =>
    LET rows == IF decoded_as = "A" THEN Transpose(predictions[1]) ELSE predictions[1]
        IsOf(d, row) ==
          IF decoded_as = "A"
          THEN /\ <<d.x, d.y, d.w, d.h>> = SubSeq(row, 1, 4)
               /\ row[5 + d.class_id] = d.confidence
               /\ \A c \in 5..Len(row) : row[c] <= d.confidence
               /\ \A c \in 5..(4 + d.class_id) : row[c] < d.confidence
          ELSE /\ <<d.x, d.y, d.x + d.w, d.y + d.h>> = SubSeq(row, 1, 4)
               /\ d.confidence = row[5]
               /\ d.class_id = row[6]
    IN \E f \in [1..Len(detections) -> 1..Len(rows)] :
         /\ \A m, n \in 1..Len(detections) : m # n => f[m] # f[n]
         /\ \A n \in 1..Len(detections) : IsOf(detections[n], rows[f[n]])

\* the raw detector has dropped the first of two candidates at its filter and
\* returned the second
C37_Witness ==
  /\ decoded_as = "A" /\ det_pc = "detected" /\ Len(predictions[1][1]) = 2
  /\ Len(detections) = 1
  /\ detections[1].confidence = 90 /\ predictions[1][5][1] = 60 /\ conf_threshold = 65

\* C38: whenever the preview button does not read 'Stop Cam Preview' the
\* detection button is disabled, and a click on the preview button that reads
\* 'Stop Cam Preview' leaves the detection button disabled with the text
\* 'Start Object Detection'
C38_DetectOnlyWhilePreview ==
  /\ [](preview_button.text # "Stop Cam Preview" => ~detect_button.enabled)
  /\ [][(clicks' = Append(clicks, "preview") /\ preview_button.text = "Stop Cam Preview")
          => detect_button' = [text |-> "Start Object Detection", enabled |-> FALSE]]_vars

\* the preview has been started, the detection button pressed, the preview stopped
C38_Witness ==
  /\ clicks = <<"preview", "detect", "preview">>
  /\ preview_button.text = "Start Cam Preview"
  /\ detect_button = [text |-> "Start Object Detection", enabled |-> FALSE]

\* C39: after a click on the preview button in its initial state, the detection
\* button is enabled if start_preview has started the camera (camera_active is
\* True), and the preview button does not read 'Stop Cam Preview' if it has not
C39_StartEnablesDetection ==
  [][(clicks' = Append(clicks, "preview") /\ preview_button.text = "Start Cam Preview")
      => /\ camera_active' = <<TRUE>> => detect_button'.enabled
         /\ camera_active' # <<TRUE>> => preview_button'.text # "Stop Cam Preview"]_vars

====
